---- MODULE Spec2Model ----
(***************************************************************************)
(* Model of the image upload gateway of src/main.go (the second, current   *)
(* program of the file: lines 176-412): the authentication middleware, the *)
(* health handler and the multi-file upload handler with its per-file      *)
(* loop, in front of an S3-compatible bucket.                              *)
(*                                                                         *)
(* Strings that the program takes apart or puts together (file names,      *)
(* storage keys, URLs, failure entries) are sequences of chunks; file      *)
(* names are sequences of single characters so that filepath.Ext and       *)
(* strings.ToLower are computed as the library computes them.              *)
(***************************************************************************)
EXTENDS Integers, Sequences, FiniteSets, Bags, TLC

VARIABLES
    pc,         \* per handler: position of the goroutine serving the request
    req,        \* per handler: the http.Request being served
    ran,        \* per handler: which wrapped handler next(w, r) has run
    idx,        \* per handler: 1-based position of the range loop over files
    urls,       \* per handler: local urls of uploadHandler
    failed,     \* per handler: local failed of uploadHandler
    streams,    \* per handler: indexes of the files whose stream is open
    opened,     \* per handler: indexes of the files fileHeader.Open() was called on
    filename,   \* per handler: local filename (the generated storage key)
    result,     \* per handler: (url, err) returned by uploadToR2
    attempts,   \* per handler: the PutObject calls made for this request
    resp,       \* per handler: the response written, NoResp before
    nextId,     \* number of identifiers uuid.New() has handed out
    r2Puts      \* bag of the keys of all PutObject calls the bucket received

vars == <<pc, req, ran, idx, urls, failed, streams, opened, filename, result,
          attempts, resp, nextId, r2Puts>>

----------------------------------------------------------------------------
(* Program constants and configuration *)

\* len(files) > 5 is rejected
MaxFiles == 5

\* r.ParseMultipartForm(50 << 20), in MiB
MaxMemory == 50

apiKey == "secret"
publicURL == <<"https://cdn.example">>
bucketName == "bucket"

(* Bounds of the model *)

\* identifiers uuid.New() can hand out in one behaviour
MaxUuid == 6

\* the same, when two requests are served concurrently
MaxConcUuid == 3

\* files of one form when two requests are served concurrently
MaxConcFiles == 2

\* identifiers uuid.New() can hand out when single files of every kind of
\* name are uploaded
MaxNameUuid == 2

Handlers == {1, 2}

----------------------------------------------------------------------------
(* Inputs *)

NameJpg == <<"a", ".", "j", "p", "g">>
NamePng == <<"b", ".", "P", "N", "G">>
NameGif == <<"c", ".", "g", "i", "f">>
NameNoExt == <<"r", "a", "w">>

\* sample files: name and decoded size in MiB
FileSet ==
    { [name |-> NameJpg, size |-> 1],
      [name |-> NamePng, size |-> 60],
      [name |-> NameGif, size |-> 1] }

ConcFileSet ==
    { [name |-> NameJpg, size |-> 1],
      [name |-> NameNoExt, size |-> 1] }

\* file names of every kind the extension check tells apart
NameSet ==
    { NameJpg, NamePng, NameGif, NameNoExt,
      <<"d", ".", "j", "p", "e", "g">>,
      <<"e", ".", "W", "e", "b", "P">>,
      <<"f", ".", "p", "n", "g", ".", "b", "a", "k">>,
      <<"g", ".", "t", "a", "r", ".", "p", "n", "g">>,
      <<".", "j", "p", "g">>,
      <<"j", "p", "g">>,
      <<"h", ".">>,
      <<"i", ".", "J", "p", "G">> }

NameFileSet == { [name |-> n, size |-> 1] : n \in NameSet }

SeqsUpTo(S, n) == UNION { [1..k -> S] : k \in 0..n }

\* the X-API-Key header; "" is the absent header (Header.Get returns "")
HeaderKeys == {"", "wrong", apiKey}

Requests ==
    [ key : HeaderKeys,
      route : {"/", "/upload"},
      method : {"GET", "POST"},
      wellFormed : BOOLEAN,
      files : SeqsUpTo(FileSet, MaxFiles + 1) ]

ConcRequests ==
    [ key : {apiKey},
      route : {"/", "/upload"},
      method : {"POST"},
      wellFormed : {TRUE},
      files : SeqsUpTo(ConcFileSet, MaxConcFiles) ]

NameRequests ==
    [ key : {apiKey},
      route : {"/", "/upload"},
      method : {"POST"},
      wellFormed : {TRUE},
      files : SeqsUpTo(NameFileSet, 1) ]

NoReq == [key |-> "", route |-> "/", method |-> "GET", wellFormed |-> FALSE,
          files |-> <<>>]
NoResp == [status |-> 0, urls |-> <<>>, failed |-> <<>>, message |-> <<>>]
NoResult == [url |-> <<>>, err |-> FALSE]

----------------------------------------------------------------------------
(* Library functions, computed as the Go library computes them *)

UpperChars == <<"A","B","C","D","E","F","G","H","I","J","K","L","M",
                "N","O","P","Q","R","S","T","U","V","W","X","Y","Z">>
LowerChars == <<"a","b","c","d","e","f","g","h","i","j","k","l","m",
                "n","o","p","q","r","s","t","u","v","w","x","y","z">>

LowerChar(c) ==
    IF \E i \in 1..Len(UpperChars) : UpperChars[i] = c
    THEN LowerChars[CHOOSE i \in 1..Len(UpperChars) : UpperChars[i] = c]
    ELSE c

\* strings.ToLower
ToLower(s) == [i \in 1..Len(s) |-> LowerChar(s[i])]

\* filepath.Ext: the suffix beginning at the final dot of the final path
\* element; empty when there is no dot
RECURSIVE ExtFrom(_, _)
ExtFrom(path, i) ==
    IF i = 0 \/ path[i] = "/" THEN <<>>
    ELSE IF path[i] = "." THEN SubSeq(path, i, Len(path))
    ELSE ExtFrom(path, i - 1)

Ext(path) == ExtFrom(path, Len(path))

\* multipart.Reader.ReadForm: a file part is kept in memory while it fits in
\* what is left of maxMemory and is written to a temporary file otherwise;
\* the size of the files never makes the parse fail
RECURSIVE OnDiskFrom(_, _, _)
OnDiskFrom(files, i, remaining) ==
    IF i > Len(files) THEN <<>>
    ELSE IF files[i].size > remaining
         THEN <<TRUE>> \o OnDiskFrom(files, i + 1, remaining)
         ELSE <<FALSE>> \o OnDiskFrom(files, i + 1, remaining - files[i].size)

\* r.ParseMultipartForm(maxMemory): err, and where each file part was put
ParseMultipartForm(r, maxMemory) ==
    [ err |-> ~r.wellFormed,
      onDisk |-> OnDiskFrom(r.files, 1, maxMemory) ]

\* fileHeader.Open(): a part held in memory always opens; a part in a
\* temporary file is opened with os.Open, which may fail
OpenErrs(r, i) ==
    IF ParseMultipartForm(r, MaxMemory).onDisk[i] THEN {FALSE, TRUE} ELSE {FALSE}

\* uuid.New().String(); the n-th identifier, fresh on every generation
UuidString(n) == ToString(n)

----------------------------------------------------------------------------
(* Pure functions of main.go *)

AllowedExts ==
    { <<".", "j", "p", "g">>,
      <<".", "j", "p", "e", "g">>,
      <<".", "p", "n", "g">>,
      <<".", "w", "e", "b", "p">> }

\* the whitelist with one extension too many
isAllowedImageWithGif(name) ==
    ToLower(Ext(name)) \in AllowedExts \cup {<<".", "g", "i", "f">>}

\* the extension compared without strings.ToLower
isAllowedImageCaseSensitive(name) == Ext(name) \in AllowedExts

isAllowedImage(name) == ToLower(Ext(name)) \in AllowedExts

\* the key built from the client's file name instead of a fresh identifier
generateFileNameFromOriginal(original, id) == <<"uploads/">> \o original

generateFileName(original, id) ==
    <<"uploads/">> \o <<UuidString(id)>> \o Ext(original)

detectContentType(fname) ==
    LET e == ToLower(Ext(fname)) IN
    IF e \in {<<".", "j", "p", "g">>, <<".", "j", "p", "e", "g">>} THEN "image/jpeg"
    ELSE IF e = <<".", "p", "n", "g">> THEN "image/png"
    ELSE IF e = <<".", "w", "e", "b", "p">> THEN "image/webp"
    ELSE "application/octet-stream"

\* the url built without the separator
ObjectURLNoSlash(fname) == publicURL \o fname

\* the url uploadToR2 returns when PutObject succeeds
ObjectURL(fname) == publicURL \o <<"/">> \o fname

sendJSONMulti(status, us, fs, message) ==
    [status |-> status, urls |-> us, failed |-> fs, message |-> message]

\* the gates without the upper limit on the number of files
GateNoMax(r) ==
    IF r.method # "POST"
    THEN sendJSONMulti(405, <<>>, <<>>, <<"Method not allowed">>)
    ELSE IF ParseMultipartForm(r, MaxMemory).err
    THEN sendJSONMulti(400, <<>>, <<>>, <<"Invalid multipart form">>)
    ELSE IF Len(r.files) = 0
    THEN sendJSONMulti(400, <<>>, <<>>, <<"At least 1 image required">>)
    ELSE sendJSONMulti(0, <<>>, <<>>, <<>>)

\* uploadHandler before the loop: the rejection it sends, or status 0 when
\* the request goes on to the loop
Gate(r) ==
    IF r.method # "POST"
    THEN sendJSONMulti(405, <<>>, <<>>, <<"Method not allowed">>)
    ELSE IF ParseMultipartForm(r, MaxMemory).err
    THEN sendJSONMulti(400, <<>>, <<>>, <<"Invalid multipart form">>)
    ELSE IF Len(r.files) = 0
    THEN sendJSONMulti(400, <<>>, <<>>, <<"At least 1 image required">>)
    ELSE IF Len(r.files) > MaxFiles
    THEN sendJSONMulti(400, <<>>, <<>>, <<"Maximum 5 images allowed">>)
    ELSE sendJSONMulti(0, <<>>, <<>>, <<>>)

\* the check that lets a request without the header through
AuthorizedOrAbsent(key) == key = apiKey \/ key = ""

\* key != apiKey decides the 401
Authorized(key) == key = apiKey

\* a failure that leaves the loop
Break(i, n) == n + 1

\* the loop's continue: the next file is processed
Continue(i, n) == i + 1

\* the stream closed on the success path only
CloseStreamOnSuccess(open, i, err) == IF err THEN open ELSE open \ {i}

\* file.Close() after uploadToR2, on both outcomes
CloseStream(open, i, err) == open \ {i}

\* the policy without the partial-success branch
RespondNoPartial(us, fs, n) ==
    IF Len(us) = 0
    THEN sendJSONMulti(400, <<>>, fs, <<"All uploads failed">>)
    ELSE sendJSONMulti(200, us, <<>>,
             <<ToString(Len(us)), " image(s) uploaded successfully">>)

\* the response policy after the loop
Respond(us, fs, n) ==
    IF Len(us) = 0
    THEN sendJSONMulti(400, <<>>, fs, <<"All uploads failed">>)
    ELSE IF Len(fs) > 0
    THEN sendJSONMulti(207, us, fs,
             <<ToString(Len(us)), " of ", ToString(n), " images uploaded">>)
    ELSE sendJSONMulti(200, us, <<>>,
             <<ToString(Len(us)), " image(s) uploaded successfully">>)

----------------------------------------------------------------------------
(* State *)

Init ==
    /\ pc = [h \in Handlers |-> "idle"]
    /\ req = [h \in Handlers |-> NoReq]
    /\ ran = [h \in Handlers |-> "none"]
    /\ idx = [h \in Handlers |-> 0]
    /\ urls = [h \in Handlers |-> <<>>]
    /\ failed = [h \in Handlers |-> <<>>]
    /\ streams = [h \in Handlers |-> {}]
    /\ opened = [h \in Handlers |-> {}]
    /\ filename = [h \in Handlers |-> <<>>]
    /\ result = [h \in Handlers |-> NoResult]
    /\ attempts = [h \in Handlers |-> <<>>]
    /\ resp = [h \in Handlers |-> NoResp]
    /\ nextId = 0
    /\ r2Puts = EmptyBag

Busy(h) == pc[h] \notin {"idle", "done"}

\* identifiers the request served by h may still ask for
Pending(h) ==
    IF ~Busy(h) THEN 0
    ELSE IF pc[h] \in {"health", "upload"} THEN Len(req[h].files)
    ELSE IF pc[h] \in {"put", "close"} THEN Len(req[h].files) - idx[h]
    ELSE Len(req[h].files) - idx[h] + 1

RECURSIVE SumPending(_)
SumPending(S) ==
    IF S = {} THEN 0
    ELSE LET h == CHOOSE x \in S : TRUE IN Pending(h) + SumPending(S \ {h})

----------------------------------------------------------------------------
(* Actions *)

\* A request arrives and goes through authMiddleware: 401 and return on a
\* key mismatch, next(w, r) otherwise.  A request is admitted while the
\* bounded identifier supply can serve every file in flight.
authMiddleware(h, incoming, budget) ==
    /\ pc[h] = "idle"
    /\ \E r \in incoming :
          /\ nextId + SumPending(Handlers) + Len(r.files) <= budget
          /\ req' = [req EXCEPT ![h] = r]
          /\ IF ~Authorized(r.key)
             THEN /\ resp' = [resp EXCEPT ![h] =
                       sendJSONMulti(401, <<>>, <<>>,
                           <<"Unauthorized: Invalid or missing API key">>)]
                  /\ pc' = [pc EXCEPT ![h] = "done"]
             ELSE /\ resp' = [resp EXCEPT ![h] = NoResp]
                  /\ pc' = [pc EXCEPT ![h] =
                       IF r.route = "/upload" THEN "upload" ELSE "health"]
    /\ UNCHANGED <<ran, idx, urls, failed, streams, opened, filename, result,
                   attempts, nextId, r2Puts>>

healthHandler(h) ==
    /\ pc[h] = "health"
    /\ ran' = [ran EXCEPT ![h] = "health"]
    /\ resp' = [resp EXCEPT ![h] =
           sendJSONMulti(200, <<>>, <<>>, <<"successfully connect">>)]
    /\ pc' = [pc EXCEPT ![h] = "done"]
    /\ UNCHANGED <<req, idx, urls, failed, streams, opened, filename, result,
                   attempts, nextId, r2Puts>>

\* uploadHandler up to the loop: method, form parse and file count
uploadHandler(h) ==
    /\ pc[h] = "upload"
    /\ ran' = [ran EXCEPT ![h] = "upload"]
    /\ IF Gate(req[h]).status # 0
       THEN /\ resp' = [resp EXCEPT ![h] = Gate(req[h])]
            /\ pc' = [pc EXCEPT ![h] = "done"]
            /\ idx' = idx
       ELSE /\ idx' = [idx EXCEPT ![h] = 1]
            /\ pc' = [pc EXCEPT ![h] = "loop"]
            /\ resp' = resp
    /\ UNCHANGED <<req, urls, failed, streams, opened, filename, result,
                   attempts, nextId, r2Puts>>

\* loop head and the extension check of the current file
checkFile(h) ==
    /\ pc[h] = "loop"
    /\ idx[h] <= Len(req[h].files)
    /\ LET f == req[h].files[idx[h]] IN
       IF ~isAllowedImage(f.name)
       THEN /\ failed' = [failed EXCEPT ![h] =
                 Append(@, f.name \o <<": Invalid type">>)]
            /\ idx' = [idx EXCEPT ![h] = Continue(@, Len(req[h].files))]
            /\ pc' = pc
       ELSE /\ pc' = [pc EXCEPT ![h] = "open"]
            /\ UNCHANGED <<failed, idx>>
    /\ UNCHANGED <<req, ran, urls, streams, opened, filename, result, attempts,
                   resp, nextId, r2Puts>>

\* fileHeader.Open()
openFile(h) ==
    /\ pc[h] = "open"
    /\ LET f == req[h].files[idx[h]] IN
       \E err \in OpenErrs(req[h], idx[h]) :
          /\ opened' = [opened EXCEPT ![h] = @ \cup {idx[h]}]
          /\ IF err
             THEN /\ failed' = [failed EXCEPT ![h] =
                       Append(@, f.name \o <<": Failed to open">>)]
                  /\ idx' = [idx EXCEPT ![h] = Continue(@, Len(req[h].files))]
                  /\ pc' = [pc EXCEPT ![h] = "loop"]
                  /\ streams' = streams
             ELSE /\ streams' = [streams EXCEPT ![h] = @ \cup {idx[h]}]
                  /\ pc' = [pc EXCEPT ![h] = "gen"]
                  /\ UNCHANGED <<failed, idx>>
    /\ UNCHANGED <<req, ran, urls, filename, result, attempts, resp, nextId,
                   r2Puts>>

\* filename := generateFileName(fileHeader.Filename)
genFileName(h) ==
    /\ pc[h] = "gen"
    /\ filename' = [filename EXCEPT ![h] =
           generateFileName(req[h].files[idx[h]].name, nextId + 1)]
    /\ nextId' = nextId + 1
    /\ pc' = [pc EXCEPT ![h] = "put"]
    /\ UNCHANGED <<req, ran, idx, urls, failed, streams, opened, result,
                   attempts, resp, r2Puts>>

\* url, err := uploadToR2(file, filename): one PutObject, which the bucket
\* accepts or refuses
uploadToR2(h) ==
    /\ pc[h] = "put"
    /\ \E err \in BOOLEAN :
          /\ result' = [result EXCEPT ![h] =
                 IF err THEN [url |-> <<>>, err |-> TRUE]
                 ELSE [url |-> ObjectURL(filename[h]), err |-> FALSE]]
          /\ attempts' = [attempts EXCEPT ![h] =
                 Append(@, [bucket |-> bucketName, key |-> filename[h],
                            file |-> idx[h], ok |-> ~err,
                            stream |-> idx[h] \in streams[h],
                            contentType |-> detectContentType(filename[h])])]
    /\ r2Puts' = r2Puts (+) SetToBag({filename[h]})
    /\ pc' = [pc EXCEPT ![h] = "close"]
    /\ UNCHANGED <<req, ran, idx, urls, failed, streams, opened, filename, resp,
                   nextId>>

\* file.Close(), then the outcome of the file is appended and the loop
\* goes on
closeAndRecord(h) ==
    /\ pc[h] = "close"
    /\ streams' = [streams EXCEPT ![h] = CloseStream(@, idx[h], result[h].err)]
    /\ IF result[h].err
       THEN /\ failed' = [failed EXCEPT ![h] =
                 Append(@, req[h].files[idx[h]].name \o <<": Upload failed">>)]
            /\ urls' = urls
       ELSE /\ urls' = [urls EXCEPT ![h] = Append(@, result[h].url)]
            /\ failed' = failed
    /\ idx' = [idx EXCEPT ![h] =
           IF result[h].err THEN Continue(@, Len(req[h].files)) ELSE @ + 1]
    /\ pc' = [pc EXCEPT ![h] = "loop"]
    /\ UNCHANGED <<req, ran, opened, filename, result, attempts, resp, nextId,
                   r2Puts>>

\* after the loop: 400, 207 or 200
respond(h) ==
    /\ pc[h] = "loop"
    /\ idx[h] > Len(req[h].files)
    /\ resp' = [resp EXCEPT ![h] =
           Respond(urls[h], failed[h], Len(req[h].files))]
    /\ pc' = [pc EXCEPT ![h] = "done"]
    /\ UNCHANGED <<req, ran, idx, urls, failed, streams, opened, filename,
                   result, attempts, nextId, r2Puts>>

\* the handler returns; its locals are gone and the connection is free for
\* the next request
finish(h) ==
    /\ pc[h] = "done"
    /\ pc' = [pc EXCEPT ![h] = "idle"]
    /\ req' = [req EXCEPT ![h] = NoReq]
    /\ ran' = [ran EXCEPT ![h] = "none"]
    /\ idx' = [idx EXCEPT ![h] = 0]
    /\ urls' = [urls EXCEPT ![h] = <<>>]
    /\ failed' = [failed EXCEPT ![h] = <<>>]
    /\ streams' = [streams EXCEPT ![h] = {}]
    /\ opened' = [opened EXCEPT ![h] = {}]
    /\ filename' = [filename EXCEPT ![h] = <<>>]
    /\ result' = [result EXCEPT ![h] = NoResult]
    /\ attempts' = [attempts EXCEPT ![h] = <<>>]
    /\ resp' = [resp EXCEPT ![h] = NoResp]
    /\ UNCHANGED <<nextId, r2Puts>>

Step(h) ==
    \/ healthHandler(h)
    \/ uploadHandler(h)
    \/ checkFile(h)
    \/ openFile(h)
    \/ genFileName(h)
    \/ uploadToR2(h)
    \/ closeAndRecord(h)
    \/ respond(h)
    \/ finish(h)

\* one connection at a time, every request the clients can send
Next ==
    \/ authMiddleware(1, Requests, MaxUuid)
    \/ Step(1)

Spec == Init /\ [][Next]_vars

\* two connections served concurrently
NextConc ==
    \/ \E h \in Handlers : authMiddleware(h, ConcRequests, MaxConcUuid)
    \/ \E h \in Handlers : Step(h)

SpecConc == Init /\ [][NextConc]_vars

\* one connection at a time, single files with every kind of name
NextNames ==
    \/ authMiddleware(1, NameRequests, MaxNameUuid)
    \/ Step(1)

SpecNames == Init /\ [][NextNames]_vars

----------------------------------------------------------------------------
(* Vocabulary of the properties *)

Range(q) == { q[i] : i \in 1..Len(q) }

\* the extension test of the specification, written out
AllowedExtension(name) ==
    ToLower(Ext(name)) \in { <<".", "j", "p", "g">>, <<".", "j", "p", "e", "g">>,
                             <<".", "p", "n", "g">>, <<".", "w", "e", "b", "p">> }

\* h serves a request with the right key on /upload
AuthedUpload(h) ==
    pc[h] # "idle" /\ req[h].key = apiKey /\ req[h].route = "/upload"

\* the request of h is one the loop runs on
LoopRequest(h) ==
    /\ AuthedUpload(h)
    /\ req[h].method = "POST"
    /\ req[h].wellFormed
    /\ Len(req[h].files) \in 1..MaxFiles

InLoop(h) == pc[h] \in {"loop", "open", "gen", "put", "close"}

NumFiles(h) == Len(req[h].files)

\* the PutObject calls of the request that succeeded, in call order
Stored(h) == SelectSeq(attempts[h], LAMBDA a : a.ok)

\* the number of files of the request that failed
NumFailed(h) == NumFiles(h) - Len(Stored(h))

RECURSIVE TotalSize(_)
TotalSize(files) ==
    IF files = <<>> THEN 0 ELSE Head(files).size + TotalSize(Tail(files))

NoWork(h) == opened[h] = {} /\ attempts[h] = <<>> /\ streams[h] = {}

----------------------------------------------------------------------------
(* C1: a request whose X-API-Key is absent or differs from the configured key
   is answered 401 by the middleware on either route, whatever its method,
   form and files; the wrapped handler does not run, no file is opened and
   no PutObject is made. *)
C1_Unauthorized401 ==
    \A h \in Handlers :
        (pc[h] # "idle" /\ req[h].key # apiKey) =>
            /\ pc[h] = "done"
            /\ resp[h].status = 401
            /\ resp[h].urls = <<>> /\ resp[h].failed = <<>>
            /\ ran[h] = "none"
            /\ NoWork(h)

C1_Witness ==
    \E h \in Handlers :
        /\ pc[h] = "done" /\ resp[h].status = 401
        /\ req[h].key = "" /\ req[h].route = "/upload" /\ req[h].method = "POST"
        /\ req[h].wellFormed /\ Len(req[h].files) = 2
        /\ \A i \in 1..2 : AllowedExtension(req[h].files[i].name)

(* C2: in an authenticated POST /upload with N files, 1 <= N <= 5, every file
   the loop has passed has exactly one outcome (the outcomes so far number
   idx - 1), a failure never ends the loop early (the response is written
   only when all N files are passed), and the response accounts for N
   results: len(urls) + len(failed) = N. *)
C2_OneOutcomePerFile ==
    \A h \in Handlers :
        /\ InLoop(h) =>
              /\ LoopRequest(h)
              /\ idx[h] \in 1..(NumFiles(h) + 1)
              /\ Len(urls[h]) + Len(failed[h]) = idx[h] - 1
        /\ (pc[h] = "done" /\ LoopRequest(h)) =>
              /\ idx[h] = NumFiles(h) + 1
              /\ Len(urls[h]) + Len(failed[h]) = NumFiles(h)
              /\ Len(resp[h].urls) + Len(resp[h].failed) = NumFiles(h)

C2_Witness ==
    \E h \in Handlers :
        /\ pc[h] = "done" /\ LoopRequest(h) /\ NumFiles(h) = 4
        /\ ~AllowedExtension(req[h].files[1].name)
        /\ Len(failed[h]) = 3
        /\ failed[h][2] = req[h].files[2].name \o <<": Failed to open">>
        /\ failed[h][3] = req[h].files[3].name \o <<": Upload failed">>
        /\ Len(resp[h].urls) = 1

(* C3: after the loop over N files of which k failed, the response is 400
   "All uploads failed" with k = N failure entries and no URL when k = N;
   207 "(N-k) of N images uploaded" with N-k URLs and k failure entries when
   0 < k < N; 200 with N URLs and no failure entry when k = 0; and no other
   status. *)
C3_ResponsePolicy ==
    \A h \in Handlers :
        (pc[h] = "done" /\ LoopRequest(h)) =>
            LET n == NumFiles(h)
                k == NumFailed(h)
                r == resp[h]
            IN /\ r.status \in {200, 207, 400}
               /\ k = n =>
                     /\ r.status = 400
                     /\ r.message = <<"All uploads failed">>
                     /\ Len(r.failed) = n
                     /\ r.urls = <<>>
               /\ (0 < k /\ k < n) =>
                     /\ r.status = 207
                     /\ r.message = <<ToString(n - k), " of ", ToString(n),
                                      " images uploaded">>
                     /\ Len(r.urls) = n - k
                     /\ Len(r.failed) = k
               /\ k = 0 =>
                     /\ r.status = 200
                     /\ Len(r.urls) = n
                     /\ r.failed = <<>>

C3_Witness ==
    \E h \in Handlers :
        /\ pc[h] = "done" /\ LoopRequest(h)
        /\ NumFiles(h) = 5 /\ NumFailed(h) = 2
        /\ resp[h].status = 207
        /\ resp[h].message = <<"3", " of ", "5", " images uploaded">>

(* C4 as stated: an authenticated /upload request reaches the loop only if it
   is a POST with 1 to 5 files; a non-POST gets 405, zero files get 400
   "At least 1 image required", more than 5 files get 400 "Maximum 5 images
   allowed"; a rejected request opens no file, makes no PutObject and has
   empty result lists. *)
C4_GatesAsStated ==
    \A h \in Handlers :
        /\ (AuthedUpload(h) /\ InLoop(h)) =>
              (req[h].method = "POST" /\ NumFiles(h) \in 1..MaxFiles)
        /\ (AuthedUpload(h) /\ pc[h] = "done") =>
              /\ req[h].method # "POST" => resp[h].status = 405
              /\ (req[h].method = "POST" /\ NumFiles(h) = 0) =>
                    /\ resp[h].status = 400
                    /\ resp[h].message = <<"At least 1 image required">>
              /\ (req[h].method = "POST" /\ NumFiles(h) > MaxFiles) =>
                    /\ resp[h].status = 400
                    /\ resp[h].message = <<"Maximum 5 images allowed">>
              /\ (req[h].method # "POST" \/ NumFiles(h) \notin 1..MaxFiles) =>
                    /\ NoWork(h)
                    /\ resp[h].urls = <<>> /\ resp[h].failed = <<>>

(* C4 amended: the same, for a POST whose multipart form parses; a POST whose
   form does not parse gets 400 "Invalid multipart form" whatever its files,
   and is rejected in the same way. *)
C4_Gates ==
    \A h \in Handlers :
        /\ (AuthedUpload(h) /\ InLoop(h)) =>
              /\ req[h].method = "POST" /\ req[h].wellFormed
              /\ NumFiles(h) \in 1..MaxFiles
        /\ (AuthedUpload(h) /\ pc[h] = "done") =>
              /\ req[h].method # "POST" =>
                    /\ resp[h].status = 405
                    /\ resp[h].message = <<"Method not allowed">>
              /\ (req[h].method = "POST" /\ ~req[h].wellFormed) =>
                    /\ resp[h].status = 400
                    /\ resp[h].message = <<"Invalid multipart form">>
              /\ (req[h].method = "POST" /\ req[h].wellFormed /\ NumFiles(h) = 0) =>
                    /\ resp[h].status = 400
                    /\ resp[h].message = <<"At least 1 image required">>
              /\ (req[h].method = "POST" /\ req[h].wellFormed
                    /\ NumFiles(h) > MaxFiles) =>
                    /\ resp[h].status = 400
                    /\ resp[h].message = <<"Maximum 5 images allowed">>
              /\ ~LoopRequest(h) =>
                    /\ NoWork(h)
                    /\ idx[h] = 0
                    /\ resp[h].urls = <<>> /\ resp[h].failed = <<>>

C4_Witness ==
    \E h \in Handlers :
        /\ AuthedUpload(h) /\ pc[h] = "done"
        /\ req[h].method = "POST" /\ req[h].wellFormed
        /\ NumFiles(h) = MaxFiles + 1
        /\ \A i \in 1..NumFiles(h) : AllowedExtension(req[h].files[i].name)
        /\ resp[h].message = <<"Maximum 5 images allowed">>

(* C5: PutObject is called only for files whose extension, lower-cased, is
   .jpg, .jpeg, .png or .webp; every other file the loop has passed has the
   failure entry "<filename>: Invalid type", was never opened and was never
   sent to the bucket. *)
C5_OnlyAllowedTypesStored ==
    \A h \in Handlers :
        /\ \A j \in 1..Len(attempts[h]) :
              AllowedExtension(req[h].files[attempts[h][j].file].name)
        /\ \A i \in 1..NumFiles(h) :
              (~AllowedExtension(req[h].files[i].name)) =>
                  /\ i \notin opened[h]
                  /\ i \notin streams[h]
                  /\ \A j \in 1..Len(attempts[h]) : attempts[h][j].file # i
                  /\ (InLoop(h) /\ i < idx[h]) =>
                        req[h].files[i].name \o <<": Invalid type">>
                            \in Range(failed[h])
                  /\ (pc[h] = "done" /\ LoopRequest(h)) =>
                        req[h].files[i].name \o <<": Invalid type">>
                            \in Range(resp[h].failed)

C5_Witness ==
    /\ \E h \in Handlers :
          /\ pc[h] = "done" /\ LoopRequest(h)
          /\ req[h].files[1].name = NameGif
          /\ resp[h].failed = <<NameGif \o <<": Invalid type">> >>
    /\ \E k \in BagToSet(r2Puts) : Ext(k) = <<".", "W", "e", "b", "P">>

(* C6 as stated: an authenticated POST /upload with exactly one file, of an
   allowed extension, is answered 200 with exactly one URL and no failure
   entry. *)
C6_SingleUploadAsStated ==
    \A h \in Handlers :
        (pc[h] = "done" /\ LoopRequest(h) /\ NumFiles(h) = 1
            /\ AllowedExtension(req[h].files[1].name)) =>
            /\ resp[h].status = 200
            /\ Len(resp[h].urls) = 1
            /\ resp[h].failed = <<>>

(* C6 amended: such a request is answered 200 with exactly one URL and no
   failure entry when the file opens and its PutObject succeeds; otherwise it
   is answered 400 with no URL and the one failure entry
   "<filename>: Failed to open" or "<filename>: Upload failed". *)
C6_SingleUpload ==
    \A h \in Handlers :
        (pc[h] = "done" /\ LoopRequest(h) /\ NumFiles(h) = 1
            /\ AllowedExtension(req[h].files[1].name)) =>
            LET name == req[h].files[1].name IN
            \/ /\ opened[h] = {1}
               /\ Len(attempts[h]) = 1 /\ attempts[h][1].ok
               /\ resp[h].status = 200
               /\ Len(resp[h].urls) = 1
               /\ resp[h].failed = <<>>
            \/ /\ opened[h] = {1}
               /\ Len(attempts[h]) = 1 /\ ~attempts[h][1].ok
               /\ resp[h].status = 400
               /\ resp[h].urls = <<>>
               /\ resp[h].failed = <<name \o <<": Upload failed">> >>
            \/ /\ opened[h] = {1}
               /\ attempts[h] = <<>>
               /\ resp[h].status = 400
               /\ resp[h].urls = <<>>
               /\ resp[h].failed = <<name \o <<": Failed to open">> >>

C6_Witness ==
    \E h \in Handlers :
        /\ pc[h] = "done" /\ LoopRequest(h) /\ NumFiles(h) = 1
        /\ req[h].files[1].name = NamePng
        /\ resp[h].status = 200
        /\ Len(resp[h].urls) = 1

(* C7: no two PutObject calls, of one request or of different requests,
   served one after the other or concurrently, use the same key; so no call
   overwrites an object stored before. *)
C7_UniqueKeys ==
    \A k \in BagToSet(r2Puts) : CopiesIn(k, r2Puts) = 1

C7_Witness ==
    /\ Len(attempts[1]) = 2
    /\ Len(attempts[2]) = 1
    /\ req[1].files[1].name = req[1].files[2].name
    /\ req[2].files[attempts[2][1].file].name = req[1].files[1].name
    /\ BagCardinality(r2Puts) = 3

(* C8: the URLs of an upload response are, in submission order, exactly the
   keys whose PutObject succeeded during the request, each as
   publicURL/key with key = uploads/<identifier><extension of the original
   name>; nothing else is returned and nothing stored is left out. *)
C8_UrlsAreStoredKeys ==
    \A h \in Handlers :
        (pc[h] = "done" /\ AuthedUpload(h)) =>
            LET ok == Stored(h) IN
            /\ Len(resp[h].urls) = Len(ok)
            /\ \A j \in 1..Len(ok) :
                  /\ resp[h].urls[j] = publicURL \o <<"/">> \o ok[j].key
                  /\ ok[j].key[1] = "uploads/"
                  /\ ok[j].key[2] \in { UuidString(n) : n \in 1..nextId }
                  /\ SubSeq(ok[j].key, 3, Len(ok[j].key))
                         = Ext(req[h].files[ok[j].file].name)
                  /\ CopiesIn(ok[j].key, r2Puts) >= 1
                  /\ j < Len(ok) => ok[j].file < ok[j + 1].file

C8_Witness ==
    \E h \in Handlers :
        /\ pc[h] = "done" /\ LoopRequest(h)
        /\ Len(attempts[h]) = 3
        /\ attempts[h][1].ok /\ ~attempts[h][2].ok /\ attempts[h][3].ok
        /\ Len(resp[h].urls) = 2
        /\ Ext(resp[h].urls[2]) = <<".", "P", "N", "G">>

(* C9: within a request at most one file stream is open at a time; the
   stream of a file is open when its PutObject is made and closed before the
   loop reaches the next file, on success and on every failure; no stream is
   open when the response is written. *)
C9_StreamsClosed ==
    \A h \in Handlers :
        /\ Cardinality(streams[h]) <= 1
        /\ pc[h] \in {"gen", "put", "close"} => streams[h] = {idx[h]}
        /\ pc[h] \notin {"gen", "put", "close"} => streams[h] = {}
        /\ \A j \in 1..Len(attempts[h]) : attempts[h][j].stream

C9_Witness ==
    \E h \in Handlers :
        /\ pc[h] = "done" /\ LoopRequest(h) /\ NumFiles(h) = 4
        /\ ~AllowedExtension(req[h].files[1].name)
        /\ Len(failed[h]) = 3
        /\ failed[h][2] = req[h].files[2].name \o <<": Failed to open">>
        /\ failed[h][3] = req[h].files[3].name \o <<": Upload failed">>
        /\ Len(resp[h].urls) = 1
        /\ Cardinality(opened[h]) = 3

(* C10: no request whose files total more than 50 MiB has any of its files
   put to storage. *)
C10_SizeCap ==
    \A h \in Handlers :
        TotalSize(req[h].files) > MaxMemory => attempts[h] = <<>>

====
